---- MODULE Spec2Model ----
(***************************************************************************)
(* State-machine model of the frogger clone in js/main.js.                 *)
(*                                                                         *)
(* The browser event loop is modelled at the granularity the code fixes:   *)
(* a task (key press, animation frame, image load event, timer, combobox   *)
(* change) starts only when no async call chain is running, and the chain  *)
(* it starts then runs step by step (one step per await) until it ends or  *)
(* suspends on the load of an image that is not cached yet.                *)
(***************************************************************************)
EXTENDS Integers, Sequences, FiniteSets, TLC

(***************************************************************************)
(* Bounds of the model.                                                    *)
(***************************************************************************)
NumEnemies == 2          \* how many of the shipped enemies are built
NumCharacters == 2       \* how many of the CHARACTERS the combobox offers
MaxTicks == 4            \* Date.now() stops advancing after MaxTicks ticks
MaxPending == 1          \* draw passes suspended on an image load at a time
MaxThreshold == 2        \* largest threshold the boundary check is tried with
MaxLoads == 2            \* suspended draw passes when only frames are drawn
NumHandlers == 2         \* observers registered on the bus on its own

TickMs == 1000 \div 1    \* granularity of Date.now()
MaxTime == MaxTicks * TickMs

(***************************************************************************)
(* Game global constants.                                                  *)
(***************************************************************************)
GAME_EVENTS ==
    [STOP |-> "stop", WIN |-> "win", LOSE |-> "lose",
     CHANGE_CHARACTER |-> "change_character", RESET |-> "reset"]

EventNames == {"stop", "win", "lose", "change_character", "reset"}

CHARACTERS ==
    << "img/char-boy.png", "img/char-cat-girl.png", "img/char-horn-girl.png",
       "img/char-pink-girl.png", "img/char-princess-girl.png" >>

CharacterChoices == {CHARACTERS[c] : c \in 1..NumCharacters}

StoneBlock == "img/stone-block.png"
WaterBlock == "img/water-block.png"
GrassBlock == "img/grass-block.png"
EnemyBug == "img/enemy-bug.png"

Urls == {StoneBlock, WaterBlock, GrassBlock, EnemyBug} \cup CharacterChoices

SleepMs == 2000

\* the enemies of _createGameElements, in construction order
EnemyConfig ==
    << [row |-> 1, increase |-> 20], [row |-> 2, increase |-> 200],
       [row |-> 1, increase |-> 400], [row |-> 3, increase |-> 300] >>

\* the start square mutated to lie on the goal row
StartOnGoalRow == <<2, 0>>

ShippedStart == <<2, 5>>

Enemies == 1..NumEnemies

\* the elements of the tree and the other event sources
FieldNode == 0
PlayerNode == 1
EnemyNode(e) == e + 1
Game == 0 - 1
Combobox == 0 - 2

EnemyOf(n) == n - 1

VARIABLES
    initialSquarePosition,  \* the Player constructor's argument
    player,                 \* Player: x, y, charImage, stopped
    enemies,                \* Enemy e: row, x, increase, lastUpdate, stopped
    field,                  \* FieldElement: drawWin, drawLose
    imageCache,             \* ImageLoader.imageCache: url -> image (0: absent)
    now,                    \* Date.now()
    timers,                 \* pending window.setTimeout deadlines, oldest first
    stack,                  \* the running async call chain, innermost call last
    drawn,                  \* elements the running draw pass has painted
    suspended,              \* draw passes awaiting the load event of an image
    trace,                  \* what the current task has published so far
    unfrozenAt,             \* history: Date.now() of each enemy's last RESET
    events,                 \* EventBus.events: event -> its observers
    thresholds,             \* boundary check: the thresholds of this boundary
    otherOffset,            \* boundary check: where the other element lies
    collision               \* boundary check: the last checkCollision result

\* the variables of the stand-alone boundary check
geo == << thresholds, otherOffset, collision >>

\* the variables of the game
game == << initialSquarePosition, player, enemies, field, imageCache, now,
           timers, stack, drawn, suspended, trace, unfrozenAt, events >>

vars == << game, geo >>

(***************************************************************************)
(* Call frames.  k is the function, n the element (or the event source),   *)
(* i the position inside the function, ev the event, arg the event         *)
(* parameter and id the number of the publish within the task.             *)
(***************************************************************************)
Frame(k, n, i, ev, arg, id) ==
    [k |-> k, n |-> n, i |-> i, ev |-> ev, arg |-> arg, id |-> id]

Entry(tag, ev, who, id) == <<tag, ev, who, id>>

Running == stack # <<>>
Idle == stack = <<>> /\ trace = <<>>
Top == stack[Len(stack)]
Pop(s) == SubSeq(s, 1, Len(s) - 1)
ReplaceTop(s, f) == Append(Pop(s), f)

CountTag(tr, tag) == Cardinality({j \in 1..Len(tr) : tr[j][1] = tag})
Published(tr, ev) == {j \in 1..Len(tr) : tr[j][1] = "pub" /\ tr[j][2] = ev}

(***************************************************************************)
(* EventBus                                                                *)
(***************************************************************************)
\* observeEvent: the observers of an event are a Set, kept in insertion order
\* observeEvent mutated to keep the observers in an array
observeEventInArray(registry, event, observer) ==
    LET withSet == IF event \in DOMAIN registry THEN registry
                   ELSE registry @@ (event :> <<>>)
    IN  [withSet EXCEPT ![event] = Append(@, observer)]

observeEvent(registry, event, observer) ==
    LET withSet == IF event \in DOMAIN registry THEN registry
                   ELSE registry @@ (event :> <<>>)
    IN  IF \E j \in 1..Len(withSet[event]) : withSet[event][j] = observer
        THEN withSet
        ELSE [withSet EXCEPT ![event] = Append(@, observer)]

RECURSIVE ObserveAll(_, _)
ObserveAll(registry, regs) ==
    IF regs = <<>> THEN registry
    ELSE ObserveAll(observeEvent(registry, regs[1][1], regs[1][2]), Tail(regs))

\* the observeEvent calls of the constructors, in the order new FroggerGame
\* runs them: FieldElement, Player, each Enemy, then _registerGameEvents
Registrations ==
    << <<"reset", FieldNode>>, <<"win", FieldNode>>, <<"lose", FieldNode>>,
       <<"change_character", PlayerNode>>, <<"reset", PlayerNode>>,
       <<"stop", PlayerNode>> >>
    \o [j \in 1..(2 * NumEnemies) |->
           IF j % 2 = 1 THEN <<"reset", EnemyNode((j + 1) \div 2)>>
                        ELSE <<"stop", EnemyNode(j \div 2)>>]
    \o << <<"win", Game>>, <<"lose", Game>> >>

\* new EventBus(): no event has an observer
NoEvents == [ev \in {} |-> <<>>]

Events == ObserveAll(NoEvents, Registrations)

\* emitEvent mutated to hand an event that is not in the map to the field
ObserversOrField(ev) == IF ev \in DOMAIN events THEN events[ev] ELSE <<FieldNode>>

\* emitEvent: this.events.get(event), nothing when the event is not there
Observers(ev) == IF ev \in DOMAIN events THEN events[ev] ELSE <<>>

(***************************************************************************)
(* GameElement tree                                                        *)
(***************************************************************************)
Children(n) ==
    IF n = FieldNode
    THEN <<PlayerNode>> \o [e \in 1..NumEnemies |-> EnemyNode(e)]
    ELSE <<>>

ParentOf(n) == FieldNode

PlayerPosition(p) == <<p.x * 101, (p.y * 83) - 25>>
PlayerSize == <<101, 83>>
EnemyPosition(en) == <<en.x, (en.row * 83) - 25>>
EnemySize == <<101, 83>>

(***************************************************************************)
(* GameElementBoundaries                                                   *)
(***************************************************************************)
NoThresholds ==
    [leftThreshold |-> 0, rightThreshold |-> 0,
     topThreshold |-> 0, bottomThreshold |-> 0]

\* the thresholds of the player mutated to none
PlayerThresholdsNone ==
    [leftThreshold |-> 0, rightThreshold |-> 0,
     topThreshold |-> 0, bottomThreshold |-> 0]

PlayerThresholds ==
    [leftThreshold |-> 22, rightThreshold |-> 22,
     topThreshold |-> 9, bottomThreshold |-> 30]

\* new GameElementBoundaries(element, thresholds)
GameElementBoundaries(pos, size, thr) ==
    [topLeft |-> <<pos[1], pos[2]>>,
     topRight |-> <<pos[1] + size[1], pos[2]>>,
     bottomLeft |-> <<pos[1], pos[2] + size[2]>>,
     bottomRight |-> <<pos[1] + size[1], pos[2] + size[2]>>,
     leftThreshold |-> thr.leftThreshold,
     rightThreshold |-> thr.rightThreshold,
     topThreshold |-> thr.topThreshold,
     bottomThreshold |-> thr.bottomThreshold]

checkTopRightCollision(self, bl, tr) ==
    LET xCollision == (bl[1] + self.rightThreshold <= self.topRight[1])
                      /\ (tr[1] >= self.topRight[1])
        yCollision == (tr[2] <= self.topRight[2])
                      /\ (bl[2] - self.topThreshold >= self.topRight[2])
    IN  xCollision /\ yCollision

checkTopLeftCollision(self, br, tl) ==
    LET xCollision == (tl[1] <= self.topLeft[1])
                      /\ (br[1] - self.leftThreshold >= self.topLeft[1])
        yCollision == (tl[2] <= self.topLeft[2])
                      /\ (br[2] - self.topThreshold >= self.topLeft[2])
    IN  xCollision /\ yCollision

checkBottomRightCollision(self, br, tl) ==
    LET xCollision == (tl[1] + self.rightThreshold <= self.bottomRight[1])
                      /\ (br[1] >= self.bottomRight[1])
        yCollision == (tl[2] + self.bottomThreshold <= self.bottomRight[2])
                      /\ (br[2] >= self.bottomRight[2])
    IN  xCollision /\ yCollision

\* _checkBottomLeftCollision mutated to take rightThreshold for the
\* horizontal condition
checkBottomLeftCollisionRightThreshold(self, bl, tr) ==
    LET xCollision == (bl[1] <= self.bottomLeft[1])
                      /\ (tr[1] - self.rightThreshold >= self.bottomLeft[1])
        yCollision == (tr[2] + self.bottomThreshold <= self.bottomLeft[2])
                      /\ (bl[2] >= self.bottomLeft[2])
    IN  xCollision /\ yCollision

checkBottomLeftCollision(self, bl, tr) ==
    LET xCollision == (bl[1] <= self.bottomLeft[1])
                      /\ (tr[1] - self.leftThreshold >= self.bottomLeft[1])
        yCollision == (tr[2] + self.bottomThreshold <= self.bottomLeft[2])
                      /\ (bl[2] >= self.bottomLeft[2])
    IN  xCollision /\ yCollision

\* checkCollision mutated to count only a corner of the other element that
\* lies strictly inside this one
checkCollisionStrictlyInside(self, other) ==
    \E c \in {other.topLeft, other.topRight, other.bottomLeft, other.bottomRight} :
        /\ self.topLeft[1] < c[1] /\ c[1] < self.topRight[1]
        /\ self.topLeft[2] < c[2] /\ c[2] < self.bottomLeft[2]

checkCollision(self, other) ==
    \/ checkTopRightCollision(self, other.bottomLeft, other.topRight)
    \/ checkTopLeftCollision(self, other.bottomRight, other.topLeft)
    \/ checkBottomRightCollision(self, other.bottomRight, other.topLeft)
    \/ checkBottomLeftCollision(self, other.bottomLeft, other.topRight)

\* collisionDetection mutated to return after the first sibling
collisionDetectionFirstSibling(p, ens) ==
    checkCollision(
        GameElementBoundaries(PlayerPosition(p), PlayerSize, PlayerThresholds),
        GameElementBoundaries(EnemyPosition(ens[1]), EnemySize, NoThresholds))

\* Player.collisionDetection: against every other child of the parent
collisionDetection(p, ens) ==
    LET myBoundary ==
            GameElementBoundaries(PlayerPosition(p), PlayerSize, PlayerThresholds)
    IN  \E n \in {Children(ParentOf(PlayerNode))[j] :
                      j \in 1..Len(Children(ParentOf(PlayerNode)))} \ {PlayerNode} :
            checkCollision(myBoundary,
                GameElementBoundaries(EnemyPosition(ens[EnemyOf(n)]),
                                      EnemySize, NoThresholds))

(***************************************************************************)
(* Observers registered by the constructors                                *)
(***************************************************************************)
\* the field mutated to have no LOSE observer
FieldObserverIgnoresLose(f, ev) ==
    CASE ev = "reset" -> [drawWin |-> FALSE, drawLose |-> FALSE]
      [] ev = "win" -> [f EXCEPT !.drawWin = TRUE]
      [] OTHER -> f

\* the RESET observer mutated to switch the win overlay instead of clearing it
FieldObserverTogglesWin(f, ev) ==
    CASE ev = "reset" -> [drawWin |-> ~f.drawWin, drawLose |-> FALSE]
      [] ev = "win" -> [f EXCEPT !.drawWin = TRUE]
      [] ev = "lose" -> [f EXCEPT !.drawLose = TRUE]
      [] OTHER -> f

\* FieldElement constructor: RESET, WIN and LOSE observers
FieldObserver(f, ev) ==
    CASE ev = "reset" -> [drawWin |-> FALSE, drawLose |-> FALSE]
      [] ev = "win" -> [f EXCEPT !.drawWin = TRUE]
      [] ev = "lose" -> [f EXCEPT !.drawLose = TRUE]
      [] OTHER -> f

\* the player mutated to have no STOP observer
PlayerObserverIgnoresStop(p, ev, arg, start) ==
    CASE ev = "change_character" -> [p EXCEPT !.charImage = arg]
      [] ev = "reset" -> [p EXCEPT !.x = start[1], !.y = start[2],
                                   !.stopped = FALSE]
      [] OTHER -> p

\* the RESET observer mutated to restore the column only
PlayerObserverKeepsRow(p, ev, arg, start) ==
    CASE ev = "change_character" -> [p EXCEPT !.charImage = arg]
      [] ev = "reset" -> [p EXCEPT !.x = start[1], !.stopped = FALSE]
      [] ev = "stop" -> [p EXCEPT !.stopped = TRUE]
      [] OTHER -> p

\* Player constructor: CHANGE_CHARACTER, RESET and STOP observers
PlayerObserver(p, ev, arg, start) ==
    CASE ev = "change_character" -> [p EXCEPT !.charImage = arg]
      [] ev = "reset" -> [p EXCEPT !.x = start[1], !.y = start[2],
                                   !.stopped = FALSE]
      [] ev = "stop" -> [p EXCEPT !.stopped = TRUE]
      [] OTHER -> p

\* the RESET observer mutated to move the enemy back but leave it stopped
EnemyObserverStaysStopped(en, ev) ==
    CASE ev = "reset" -> [en EXCEPT !.x = 0 - 101]
      [] ev = "stop" -> [en EXCEPT !.stopped = TRUE]
      [] OTHER -> en

\* the observers of the Enemy mutated to ignore STOP
EnemyObserverIgnoresStop(en, ev) ==
    CASE ev = "reset" -> [en EXCEPT !.x = 0 - 101, !.stopped = FALSE]
      [] OTHER -> en

\* Enemy constructor: RESET and STOP observers
EnemyObserver(en, ev) ==
    CASE ev = "reset" -> [en EXCEPT !.x = 0 - 101, !.stopped = FALSE]
      [] ev = "stop" -> [en EXCEPT !.stopped = TRUE]
      [] OTHER -> en

\* the overlay FieldElement.drawItself paints: the red one if drawLose, else
\* the green one if drawWin
Outcome(f) == IF f.drawLose THEN "lose" ELSE IF f.drawWin THEN "win" ELSE "none"

(***************************************************************************)
(* Player moves                                                            *)
(***************************************************************************)
moveUp(p) ==
    IF p.stopped THEN p
    ELSE IF p.y > 0 THEN [p EXCEPT !.y = @ - 1] ELSE p

\* the second test of _moveUp mutated to publish WIN also while stopped
moveUpEmitsWinWhileStopped(p, q) == q.y = 0

\* the second test of _moveUp, on the player q that moveUp(p) left
moveUpEmitsWin(p, q) == ~p.stopped /\ q.y = 0

\* _moveDown mutated to skip the stopped test
moveDownWhileStopped(p) ==
    IF p.y < 5 THEN [p EXCEPT !.y = @ + 1] ELSE p

moveDown(p) ==
    IF p.stopped THEN p
    ELSE IF p.y < 5 THEN [p EXCEPT !.y = @ + 1] ELSE p

\* _moveLeft mutated to skip the stopped test
moveLeftWhileStopped(p) ==
    IF p.x > 0 THEN [p EXCEPT !.x = @ - 1] ELSE p

moveLeft(p) ==
    IF p.stopped THEN p
    ELSE IF p.x > 0 THEN [p EXCEPT !.x = @ - 1] ELSE p

\* _moveRight mutated to skip the test of the last column
moveRightOffGrid(p) ==
    IF p.stopped THEN p ELSE [p EXCEPT !.x = @ + 1]

moveRight(p) ==
    IF p.stopped THEN p
    ELSE IF p.x < 4 THEN [p EXCEPT !.x = @ + 1] ELSE p

(***************************************************************************)
(* Enemy._updatePosition at Date.now() = t                                 *)
(***************************************************************************)
\* _updatePosition mutated to wrap at 505 already
updatePositionWrapsAt505(en, t) ==
    IF en.stopped THEN en
    ELSE LET moved == en.x + (en.increase * (t - en.lastUpdate)) \div 1000
         IN  [en EXCEPT !.lastUpdate = t,
                        !.x = IF moved >= 505 THEN 0 - 101 ELSE moved]

\* _updatePosition mutated to read the clock before the stopped test
updatePositionReadsClockFirst(en, t) ==
    IF en.stopped THEN [en EXCEPT !.lastUpdate = t]
    ELSE LET moved == en.x + (en.increase * (t - en.lastUpdate)) \div 1000
         IN  [en EXCEPT !.lastUpdate = t,
                        !.x = IF moved > 505 THEN 0 - 101 ELSE moved]

\* _updatePosition mutated to leave out the wrap
updatePositionNoWrap(en, t) ==
    IF en.stopped THEN en
    ELSE [en EXCEPT !.lastUpdate = t,
                    !.x = @ + (en.increase * (t - en.lastUpdate)) \div 1000]

updatePosition(en, t) ==
    IF en.stopped THEN en
    ELSE LET moved == en.x + (en.increase * (t - en.lastUpdate)) \div 1000
         IN  [en EXCEPT !.lastUpdate = t,
                        !.x = IF moved > 505 THEN 0 - 101 ELSE moved]

(***************************************************************************)
(* The state after new FroggerGame(document.body)                          *)
(***************************************************************************)
\* the elements built with the player on square start and the enemies of
\* config
InitElements(start, config) ==
    /\ initialSquarePosition = start
    /\ player = [x |-> start[1], y |-> start[2],
                 charImage |-> CHARACTERS[1], stopped |-> FALSE]
    /\ enemies = [e \in Enemies |->
                    [row |-> config[e].row, x |-> 0 - 101,
                     increase |-> config[e].increase,
                     lastUpdate |-> 0, stopped |-> FALSE]]
    /\ field = [drawWin |-> FALSE, drawLose |-> FALSE]
    /\ imageCache = [u \in Urls |-> 0]
    /\ now = 0
    /\ timers = <<>>
    /\ stack = <<>>
    /\ drawn = <<>>
    /\ suspended = {}
    /\ trace = <<>>
    /\ unfrozenAt = [e \in Enemies |-> 0 - 1]

InitGame(start) == InitElements(start, EnemyConfig)

\* the bus after the constructors have registered their observers
InitBus == events = Events

\* the boundary check at rest: no thresholds, the other element on top of
\* this one, nothing checked yet
InitGeo ==
    /\ thresholds = NoThresholds
    /\ otherOffset = <<0, 0>>
    /\ collision = "unchecked"

Init == InitGame(ShippedStart) /\ InitBus /\ InitGeo

Task(name) == << Entry("task", name, 0, 0) >>
NextId(tr) == CountTag(tr, "pub") + 1

\* the call without await: the caller goes on first
CallWithoutAwait(stk, frames) == frames \o stk

\* a call the caller awaits: the callee's frames run to completion first
AwaitCall(stk, frames) == stk \o frames

\* eventBus.emitEvent(ev, src, arg) up to its loop
EmitFrame(ev, src, arg, id) == Frame("emit", src, 1, ev, arg, id)

(***************************************************************************)
(* Tasks of the event loop                                                 *)
(***************************************************************************)
\* _moveUp mutated to call emitEvent(WIN) without await
moveUpCallNoAwait(src) ==
    << EmitFrame("win", src, "", 1), Frame("moveUp", src, 0, "", "", 0) >>

\* _moveUp at its await of emitEvent(WIN, this)
moveUpCall(src) ==
    << Frame("moveUp", src, 0, "", "", 0), EmitFrame("win", src, "", 1) >>

\* keyboard "up": async () => await this._moveUp()
KeyUp ==
    /\ Idle
    /\ player' = moveUp(player)
    /\ IF moveUpEmitsWin(player, player')
       THEN /\ stack' = moveUpCall(PlayerNode)
            /\ trace' = Task("up") \o << Entry("call", "moveUp", PlayerNode, 0),
                                         Entry("pub", "win", PlayerNode, 1) >>
       ELSE /\ stack' = <<>>
            /\ trace' = Task("up") \o << Entry("call", "moveUp", PlayerNode, 0),
                                         Entry("return", "moveUp", PlayerNode, 0) >>
    /\ drawn' = <<>>
    /\ UNCHANGED << geo, events, unfrozenAt, initialSquarePosition, enemies, field, imageCache, now,
                    timers, suspended >>

\* _moveUp resumes after its await and returns
MoveUpReturn ==
    /\ Running
    /\ Top.k = "moveUp"
    /\ stack' = Pop(stack)
    /\ trace' = Append(trace, Entry("return", "moveUp", PlayerNode, 0))
    /\ UNCHANGED << geo, events, unfrozenAt, initialSquarePosition, player, enemies, field, imageCache,
                    now, timers, drawn, suspended >>

KeyMove(name, q) ==
    /\ Idle
    /\ player' = q
    /\ stack' = <<>>
    /\ trace' = Task(name) \o << Entry("call", name, PlayerNode, 0),
                                 Entry("return", name, PlayerNode, 0) >>
    /\ drawn' = <<>>
    /\ UNCHANGED << geo, events, unfrozenAt, initialSquarePosition, enemies, field, imageCache, now,
                    timers, suspended >>

KeyDown == KeyMove("down", moveDown(player))
KeyLeft == KeyMove("left", moveLeft(player))
KeyRight == KeyMove("right", moveRight(player))

\* the combobox "change" listener
ChangeCharacter(c) ==
    /\ Idle
    /\ c # player.charImage
    /\ stack' = <<EmitFrame("change_character", Combobox, c, 1)>>
    /\ trace' = Task("change") \o << Entry("pub", "change_character", Combobox, 1) >>
    /\ drawn' = <<>>
    /\ UNCHANGED << geo, events, unfrozenAt, initialSquarePosition, player, enemies, field, imageCache,
                    now, timers, suspended >>

(***************************************************************************)
(* EventBus.emitEvent                                                      *)
(***************************************************************************)
ObserverEffect(o, ev, arg) ==
    /\ player' = IF o = PlayerNode
                 THEN PlayerObserver(player, ev, arg, initialSquarePosition)
                 ELSE player
    /\ enemies' = [e \in Enemies |->
                     IF o = EnemyNode(e) THEN EnemyObserver(enemies[e], ev)
                     ELSE enemies[e]]
    /\ field' = IF o = FieldNode THEN FieldObserver(field, ev) ELSE field

\* the observer mutated to start its sleep before the STOP publish is awaited
gameObserverSleepsFirst(ev, i, pubId, stopId) ==
    << EmitFrame("stop", Game, "", stopId),
       Frame("gameObserver", Game, i, ev, "", pubId) >>

\* the WIN/LOSE observer of _registerGameEvents up to its await: it awaits
\* emitEvent(STOP, this) and goes on (to the sleep) when that has returned
gameObserver(ev, i, pubId, stopId) ==
    << Frame("gameObserver", Game, i, ev, "", pubId),
       EmitFrame("stop", Game, "", stopId) >>

\* emitEvent mutated to call the observer without await: the loop goes on
\* and the observer's own awaits finish later
callObserver(caller, frames) ==
    SubSeq(caller, 1, Len(caller) - 1) \o frames \o << caller[Len(caller)] >>

\* await observer(event, source, params): the loop goes on when it returned
awaitObserver(caller, frames) == caller \o frames

\* one turn of the loop: await observer(event, source, params)
EmitNext ==
    /\ Running
    /\ Top.k = "emit"
    /\ Top.i <= Len(Observers(Top.ev))
    /\ LET f == Top
           o == Observers(f.ev)[f.i]
           caller == ReplaceTop(stack, [f EXCEPT !.i = @ + 1])
           id == NextId(trace)
       IN  /\ ObserverEffect(o, f.ev, f.arg)
           /\ unfrozenAt' = [e \in Enemies |->
                               IF o = EnemyNode(e) /\ f.ev = "reset" THEN now
                               ELSE unfrozenAt[e]]
           /\ IF o = Game
              THEN \* the observer of _registerGameEvents awaits emitEvent(STOP)
                   /\ stack' = awaitObserver(caller,
                                  gameObserver(f.ev, f.i, f.id, id))
                   /\ trace' = trace \o << Entry("begin", f.ev, o, f.id),
                                           Entry("pub", "stop", Game, id) >>
              ELSE /\ stack' = caller
                   /\ trace' = trace \o << Entry("begin", f.ev, o, f.id),
                                           Entry("end", f.ev, o, f.id) >>
    /\ UNCHANGED << geo, events, initialSquarePosition, imageCache, now, timers, drawn,
                    suspended >>

\* the loop is over: emitEvent returns
EmitReturn ==
    /\ Running
    /\ Top.k = "emit"
    /\ Top.i > Len(Observers(Top.ev))
    /\ stack' = Pop(stack)
    /\ trace' = Append(trace, Entry("ret", Top.ev, Top.n, Top.id))
    /\ UNCHANGED << geo, events, unfrozenAt, initialSquarePosition, player, enemies, field, imageCache,
                    now, timers, drawn, suspended >>

(***************************************************************************)
(* FroggerGame                                                             *)
(***************************************************************************)
\* the WIN/LOSE observer after its await: this.sleep(2000).then(...)
GameObserverSleep ==
    /\ Running
    /\ Top.k = "gameObserver"
    /\ timers' = Append(timers, now + SleepMs)
    /\ stack' = Pop(stack)
    /\ trace' = trace \o << Entry("timer", Top.ev, Game, now + SleepMs),
                            Entry("end", Top.ev, Game, Top.id) >>
    /\ UNCHANGED << geo, events, unfrozenAt, initialSquarePosition, player, enemies, field, imageCache,
                    now, drawn, suspended >>

\* the timeout of sleep(2000) fires: emitEvent(RESET, this)
TimerFire ==
    /\ Idle
    /\ timers # <<>>
    /\ timers[1] <= now
    /\ timers' = Tail(timers)
    /\ stack' = <<EmitFrame("reset", Game, "", 1)>>
    /\ trace' = << Entry("task", "timer", 0, timers[1]),
                   Entry("pub", "reset", Game, 1) >>
    /\ drawn' = <<>>
    /\ UNCHANGED << geo, events, unfrozenAt, initialSquarePosition, player, enemies, field, imageCache,
                    now, suspended >>

\* time passes; a timeout that is due fires before the clock moves on
Tick ==
    /\ Idle
    /\ now < MaxTime
    /\ \A j \in 1..Len(timers) : timers[j] > now
    /\ now' = now + TickMs
    /\ UNCHANGED << geo, events, unfrozenAt, initialSquarePosition, player, enemies, field, imageCache,
                    timers, stack, drawn, suspended, trace >>

\* the task is over (its call chain ended or is suspended): the event loop
\* takes the next one
TaskDone ==
    /\ stack = <<>>
    /\ trace # <<>>
    /\ trace' = <<>>
    /\ drawn' = <<>>
    /\ UNCHANGED << geo, events, unfrozenAt, initialSquarePosition, player, enemies, field, imageCache,
                    now, timers, stack, suspended >>

\* run(): requestAnimationFrame, clearRect, await this.root.draw(); at most
\* maxPending earlier passes are still waiting for an image
run(maxPending) ==
    /\ Idle
    /\ Cardinality(suspended) < maxPending
    /\ stack' = <<Frame("draw", FieldNode, 0, "", "", 0)>>
    /\ trace' = Task("frame")
    /\ drawn' = <<>>
    /\ UNCHANGED << geo, events, unfrozenAt, initialSquarePosition, player, enemies, field, imageCache,
                    now, timers, suspended >>

AnimationFrame == run(MaxPending)

(***************************************************************************)
(* GameElement.draw and the drawItself of the three elements               *)
(***************************************************************************)
\* the images a drawItself loads, in order; the player's is read at the call
LoadUrls(n) ==
    IF n = FieldNode THEN <<StoneBlock, WaterBlock, GrassBlock>>
    ELSE IF n = PlayerNode THEN <<player.charImage>>
    ELSE <<EnemyBug>>

\* ImageLoader.loadImage of cached urls: the awaits of a drawItself that
\* return at once, from its load number i + 1 on
RECURSIVE loadCached(_, _, _)
loadCached(urls, i, cache) ==
    IF i < Len(urls) /\ cache[urls[i + 1]] # 0
    THEN loadCached(urls, i + 1, cache)
    ELSE i

\* draw(): save, await drawItself, restore, then await child.draw() in turn
Draw ==
    /\ Running
    /\ Top.k = "draw"
    /\ LET f == Top
           kids == Children(f.n)
           caller == ReplaceTop(stack, [f EXCEPT !.i = @ + 1])
       IN  IF f.i = 0
           THEN stack' = AwaitCall(caller,
                    << Frame("drawItself", f.n,
                             loadCached(LoadUrls(f.n), 0, imageCache),
                             "", "", 0) >>)
           ELSE IF f.i <= Len(kids)
           THEN stack' = AwaitCall(caller,
                    << Frame("draw", kids[f.i], 0, "", "", 0) >>)
           ELSE stack' = Pop(stack)
    /\ UNCHANGED << geo, events, unfrozenAt, initialSquarePosition, player, enemies, field, imageCache,
                    now, timers, drawn, suspended, trace >>

Loading == Running /\ Top.k = "drawItself" /\ Top.i < Len(LoadUrls(Top.n))
LoadingUrl == LoadUrls(Top.n)[Top.i + 1]

\* ImageLoader.loadImage of a url not cached: _loadNewImage creates an Image
\* and the draw pass waits for its load event
LoadImageNew ==
    /\ Loading
    /\ imageCache[LoadingUrl] = 0
    /\ suspended' = suspended \cup
          { [stack |-> stack, drawn |-> drawn, url |-> LoadingUrl,
             img |-> 1 + Cardinality({s \in suspended : s.url = LoadingUrl})] }
    /\ stack' = <<>>
    /\ UNCHANGED << geo, events, unfrozenAt, initialSquarePosition, player, enemies, field, imageCache,
                    now, timers, drawn, trace >>

\* the load event of an Image: the cache is set and the draw pass resumes
ImageLoaded(s) ==
    /\ Idle
    /\ s \in suspended
    /\ imageCache' = [imageCache EXCEPT ![s.url] = s.img]
    /\ suspended' = suspended \ {s}
    /\ LET f == s.stack[Len(s.stack)]
       IN  stack' = ReplaceTop(s.stack,
                       [f EXCEPT !.i = loadCached(LoadUrls(f.n), @ + 1, imageCache')])
    /\ drawn' = s.drawn
    /\ trace' = Task("load")
    /\ UNCHANGED << geo, events, unfrozenAt, initialSquarePosition, player, enemies, field, now, timers >>

Body(n) == Running /\ Top.k = "drawItself" /\ Top.n = n
                 /\ Top.i = Len(LoadUrls(n))

\* FieldElement.drawItself after its three loads
FieldDrawItself ==
    /\ Body(FieldNode)
    /\ drawn' = Append(drawn, FieldNode)
    /\ stack' = Pop(stack)
    /\ UNCHANGED << geo, events, unfrozenAt, initialSquarePosition, player, enemies, field, imageCache,
                    now, timers, suspended, trace >>

\* Player.drawItself after its load: the collision test, then the sprite
PlayerDrawItself ==
    /\ Body(PlayerNode)
    /\ IF collisionDetection(player, enemies) /\ ~player.stopped
       THEN /\ stack' = AwaitCall(ReplaceTop(stack, [Top EXCEPT !.i = @ + 1]),
                           <<EmitFrame("lose", PlayerNode, "", NextId(trace))>>)
            /\ trace' = Append(trace,
                           Entry("pub", "lose", PlayerNode, NextId(trace)))
            /\ drawn' = drawn
       ELSE /\ stack' = Pop(stack)
            /\ trace' = trace
            /\ drawn' = Append(drawn, PlayerNode)
    /\ UNCHANGED << geo, events, unfrozenAt, initialSquarePosition, player, enemies, field, imageCache,
                    now, timers, suspended >>

\* Player.drawItself mutated to skip the sprite after it published LOSE
PlayerDrawImageSkipped ==
    /\ Running
    /\ Top.k = "drawItself"
    /\ Top.n = PlayerNode
    /\ Top.i = 2
    /\ drawn' = drawn
    /\ stack' = Pop(stack)
    /\ UNCHANGED << geo, events, unfrozenAt, initialSquarePosition, player, enemies, field, imageCache,
                    now, timers, suspended, trace >>

\* Player.drawItself after the await of emitEvent(LOSE): the sprite
PlayerDrawImage ==
    /\ Running
    /\ Top.k = "drawItself"
    /\ Top.n = PlayerNode
    /\ Top.i = 2
    /\ drawn' = Append(drawn, PlayerNode)
    /\ stack' = Pop(stack)
    /\ UNCHANGED << geo, events, unfrozenAt, initialSquarePosition, player, enemies, field, imageCache,
                    now, timers, suspended, trace >>

\* Enemy.drawItself mutated to hold the enemy back while it touches another
\* enemy of its row
EnemyDrawItselfBlocked(e) ==
    /\ Body(EnemyNode(e))
    /\ enemies' = [enemies EXCEPT ![e] =
                      IF \E o \in Enemies \ {e} :
                            /\ enemies[o].row = @.row
                            /\ enemies[o].x - @.x < 101
                            /\ @.x - enemies[o].x < 101
                      THEN @
                      ELSE updatePosition(@, now)]
    /\ drawn' = Append(drawn, EnemyNode(e))
    /\ stack' = Pop(stack)
    /\ UNCHANGED << geo, events, unfrozenAt, initialSquarePosition, player, field, imageCache, now,
                    timers, suspended, trace >>

\* Enemy.drawItself after its load: _updatePosition, then the sprite
EnemyDrawItself(e) ==
    /\ Body(EnemyNode(e))
    /\ enemies' = [enemies EXCEPT ![e] = updatePosition(@, now)]
    /\ drawn' = Append(drawn, EnemyNode(e))
    /\ stack' = Pop(stack)
    /\ UNCHANGED << geo, events, unfrozenAt, initialSquarePosition, player, field, imageCache, now,
                    timers, suspended, trace >>

Next ==
    \/ KeyUp
    \/ MoveUpReturn
    \/ KeyDown
    \/ KeyLeft
    \/ KeyRight
    \/ \E c \in CharacterChoices : ChangeCharacter(c)
    \/ EmitNext
    \/ EmitReturn
    \/ GameObserverSleep
    \/ TimerFire
    \/ Tick
    \/ TaskDone
    \/ AnimationFrame
    \/ Draw
    \/ LoadImageNew
    \/ \E s \in suspended : ImageLoaded(s)
    \/ FieldDrawItself
    \/ PlayerDrawItself
    \/ PlayerDrawImage
    \/ \E e \in Enemies : EnemyDrawItself(e)

Spec == Init /\ [][Next]_vars

(***************************************************************************)
(* The scheduling of the browser: a call chain that can go on does, the    *)
(* event loop takes the next task, and however many other tasks arrive the *)
(* clock advances and a timeout that is due is run.                        *)
(***************************************************************************)
ChainStep ==
    \/ MoveUpReturn
    \/ EmitNext
    \/ EmitReturn
    \/ GameObserverSleep
    \/ Draw
    \/ LoadImageNew
    \/ FieldDrawItself
    \/ PlayerDrawItself
    \/ PlayerDrawImage
    \/ \E e \in Enemies : EnemyDrawItself(e)

Fairness ==
    /\ WF_vars(ChainStep)
    /\ WF_vars(TaskDone)
    /\ SF_vars(Tick)
    /\ SF_vars(TimerFire)

SpecFair == Spec /\ Fairness

(***************************************************************************)
(* The game with the Player built on other squares than the shipped one    *)
(***************************************************************************)
StartSquares == {ShippedStart, <<2, 0>>}

InitAnyStart == (\E start \in StartSquares : InitGame(start)) /\ InitBus /\ InitGeo

SpecAnyStart == InitAnyStart /\ [][Next]_vars

(***************************************************************************)
(* The game with the enemies of one row: of the shipped enemies the first  *)
(* and the third are built, both on row 1, with increase 20 and 400.       *)
(***************************************************************************)
SameRowConfig == [e \in Enemies |-> EnemyConfig[IF e = 2 THEN 3 ELSE 1]]

InitSameRow == InitElements(ShippedStart, SameRowConfig) /\ InitBus /\ InitGeo

SpecSameRow == InitSameRow /\ [][Next]_vars

(***************************************************************************)
(* GameElementBoundaries.checkCollision on its own: this boundary is that  *)
(* of an element of the size of the player, with any thresholds up to      *)
(* MaxThreshold, the other that of an element of the size of an enemy,     *)
(* placed around it so that the two overlap by 0..MaxThreshold + 1 pixels  *)
(* on each axis, or fully.                                                 *)
(***************************************************************************)
ThresholdValues == 0..MaxThreshold
Overlaps == 0..(MaxThreshold + 1)
Offsets(size) == {0} \cup {size - o : o \in Overlaps} \cup {o - size : o \in Overlaps}

SelfPosition == PlayerPosition([x |-> ShippedStart[1], y |-> ShippedStart[2]])
SelfBoundary == GameElementBoundaries(SelfPosition, PlayerSize, thresholds)
OtherBoundary ==
    GameElementBoundaries(<<SelfPosition[1] + otherOffset[1],
                            SelfPosition[2] + otherOffset[2]>>,
                          EnemySize, NoThresholds)

SetThresholds(l, r, t, b) ==
    /\ thresholds' = [leftThreshold |-> l, rightThreshold |-> r,
                      topThreshold |-> t, bottomThreshold |-> b]
    /\ collision' = "unchecked"
    /\ UNCHANGED << otherOffset, game >>

PlaceOther(dx, dy) ==
    /\ otherOffset' = <<dx, dy>>
    /\ collision' = "unchecked"
    /\ UNCHANGED << thresholds, game >>

CheckCollision ==
    /\ collision' = IF checkCollision(SelfBoundary, OtherBoundary)
                    THEN "yes" ELSE "no"
    /\ UNCHANGED << thresholds, otherOffset, game >>

NextBoundary ==
    \/ \E l, r, t, b \in ThresholdValues : SetThresholds(l, r, t, b)
    \/ \E dx \in Offsets(PlayerSize[1]), dy \in Offsets(PlayerSize[2]) :
          PlaceOther(dx, dy)
    \/ CheckCollision

SpecBoundary == Init /\ [][NextBoundary]_vars

(***************************************************************************)
(* The start of the game, when no image is cached yet: animation frames    *)
(* follow each other while the passes of the frames before them still wait *)
(* for their images, up to MaxLoads of them.  No key is pressed and the    *)
(* clock stands still.                                                     *)
(***************************************************************************)
OverlappingFrame == run(MaxLoads)

NextLoading ==
    \/ OverlappingFrame
    \/ Draw
    \/ LoadImageNew
    \/ \E s \in suspended : ImageLoaded(s)
    \/ FieldDrawItself
    \/ PlayerDrawItself
    \/ \E e \in Enemies : EnemyDrawItself(e)
    \/ TaskDone

SpecLoading == Init /\ [][NextLoading]_vars

(***************************************************************************)
(* The EventBus on its own: a new EventBus() on which NumHandlers          *)
(* observers that belong to no element are registered for the events, any *)
(* number of times and in any order, and to which the events are emitted.  *)
(***************************************************************************)
Handler(h) == 10 + h
Handlers == {Handler(h) : h \in 1..NumHandlers}

InitNewBus == InitGame(ShippedStart) /\ events = NoEvents /\ InitGeo

\* eventBus.observeEvent(ev, h); the trace notes how many observers the
\* event had before
ObserveCall(ev, h) ==
    /\ Idle
    /\ events' = observeEvent(events, ev, h)
    /\ trace' = Task("observe") \o
                   << Entry("observe", ev, h, Len(Observers(ev))) >>
    /\ UNCHANGED << geo, unfrozenAt, initialSquarePosition, player, enemies,
                    field, imageCache, now, timers, stack, drawn, suspended >>

\* await eventBus.emitEvent(ev, this)
EmitCall(ev) ==
    /\ Idle
    /\ stack' = << EmitFrame(ev, Game, "", 1) >>
    /\ trace' = Task("emit") \o << Entry("pub", ev, Game, 1) >>
    /\ UNCHANGED << geo, events, unfrozenAt, initialSquarePosition, player,
                    enemies, field, imageCache, now, timers, drawn, suspended >>

NextBus ==
    \/ \E ev \in EventNames, h \in Handlers : ObserveCall(ev, h)
    \/ \E ev \in EventNames : EmitCall(ev)
    \/ EmitNext
    \/ EmitReturn
    \/ TaskDone

SpecBus == InitNewBus /\ [][NextBus]_vars

(***************************************************************************)
(* The Enemy class on its own: enemies built with any of Speeds as their   *)
(* increase, then updated, stopped and reset in any order while time       *)
(* passes.  An enemy built with 606 is at x = 505 one second later, one    *)
(* built with 607 is past it.                                              *)
(***************************************************************************)
Speeds == {0, 20, 200, 606, 607}

EnemyConfigs ==
    { [e \in Enemies |-> [row |-> EnemyConfig[e].row, increase |-> sp[e]]] :
         sp \in [Enemies -> Speeds] }

InitEnemy ==
    /\ \E config \in EnemyConfigs : InitElements(ShippedStart, config)
    /\ InitBus
    /\ InitGeo

\* this._updatePosition() of enemy e
UpdateEnemy(e) ==
    /\ enemies' = [enemies EXCEPT ![e] = updatePosition(@, now)]
    /\ UNCHANGED << geo, events, unfrozenAt, initialSquarePosition, player, field,
                    imageCache, now, timers, stack, drawn, suspended, trace >>

\* the STOP or the RESET observer of enemy e
DeliverToEnemy(e, ev) ==
    /\ enemies' = [enemies EXCEPT ![e] = EnemyObserver(@, ev)]
    /\ unfrozenAt' = [unfrozenAt EXCEPT ![e] = IF ev = "reset" THEN now ELSE @]
    /\ UNCHANGED << geo, events, initialSquarePosition, player, field, imageCache,
                    now, timers, stack, drawn, suspended, trace >>

NextEnemy ==
    \/ Tick
    \/ \E e \in Enemies : UpdateEnemy(e)
    \/ \E e \in Enemies, ev \in {"stop", "reset"} : DeliverToEnemy(e, ev)

SpecEnemy == InitEnemy /\ [][NextEnemy]_vars

(***************************************************************************)
(* What a task's trace says                                                *)
(***************************************************************************)
Indices == 1..Len(trace)
OutcomePubs ==
    {j \in Indices : trace[j][1] = "pub" /\ trace[j][2] \in {"win", "lose"}}
StopPubs == Published(trace, "stop")
ResetPubs == Published(trace, "reset")
TimerEntries == {j \in Indices : trace[j][1] = "timer"}
AllStopped == player.stopped /\ \A e \in Enemies : enemies[e].stopped
NoneStopped == ~player.stopped /\ \A e \in Enemies : ~enemies[e].stopped
TaskIs(name) == trace # <<>> /\ trace[1] = Entry("task", name, 0, 0)

\* the STOP publish at p has returned before j, every observer served
StopCompleted(p, j) ==
    \E q \in Indices :
        /\ p < q /\ q < j
        /\ trace[q] = Entry("ret", "stop", Game, trace[p][4])
        /\ \A k \in 1..Len(Observers("stop")) :
              \E m \in Indices :
                  /\ p < m /\ m < q
                  /\ trace[m] = Entry("end", "stop", Observers("stop")[k],
                                      trace[p][4])

(***************************************************************************)
(* C1: every publication of WIN or LOSE makes the game publish STOP        *)
(* exactly once and start exactly one 2000 ms timer, started only after    *)
(* the STOP publish has returned with the player and every enemy stopped;  *)
(* each timer publishes RESET exactly once, 2000 ms after it was started,  *)
(* and RESET is published by nothing else.                                 *)
(***************************************************************************)
C1_State ==
    /\ stack = <<>> =>
          /\ Cardinality(StopPubs) = Cardinality(OutcomePubs)
          /\ Cardinality(TimerEntries) = Cardinality(OutcomePubs)
    /\ \A j \in TimerEntries :
          /\ \E p \in StopPubs : StopCompleted(p, j)
          /\ trace[j][4] = now + SleepMs
          /\ \E t \in 1..Len(timers) : timers[t] = now + SleepMs
    /\ TimerEntries # {} => AllStopped
    /\ Cardinality(ResetPubs) <= 1
    /\ ResetPubs # {} => trace[1] = Entry("task", "timer", 0, now)
    /\ (trace # <<>> /\ trace[1][2] = "timer") => ResetPubs = {2}

C1_Step ==
    IF trace' # <<>> /\ trace'[1][2] = "timer" /\ trace = <<>>
    THEN timers # <<>> /\ timers[1] = now /\ timers' = Tail(timers)
    ELSE IF \E j \in 1..Len(trace') : j > Len(trace) /\ trace'[j][1] = "timer"
    THEN timers' = Append(timers, now + SleepMs)
    ELSE timers' = timers

C1_OutcomeStopsThenResets == [](C1_State) /\ [][C1_Step]_vars

C1_Witness ==
    /\ stack = <<>>
    /\ TimerEntries # {}
    /\ \E j \in OutcomePubs : trace[j][2] = "lose"

(***************************************************************************)
(* C2: an enemy's first position update after the RESET that unfroze it    *)
(* moves it by speed times the time since that RESET only.                 *)
(***************************************************************************)
EnemyUpdates(e) == Body(EnemyNode(e)) /\ stack' = Pop(stack)

C2_Step ==
    \A e \in Enemies :
        ( /\ EnemyUpdates(e)
          /\ ~enemies[e].stopped
          /\ unfrozenAt[e] >= 0
          /\ enemies[e].lastUpdate < unfrozenAt[e] )
        => LET moved == enemies[e].x
                          + (enemies[e].increase * (now - unfrozenAt[e])) \div 1000
           IN  enemies'[e].x = IF moved > 505 THEN 0 - 101 ELSE moved

C2_NoJumpAfterUnfreeze == [][C2_Step]_vars

(***************************************************************************)
(* C3: when a RESET publish has returned, the player is on the square      *)
(* given at construction, neither the player nor any enemy is stopped,     *)
(* every enemy is at x = -101 and the field shows neither overlay.         *)
(***************************************************************************)
ResetReturned ==
    trace # <<>> /\ trace[Len(trace)] = Entry("ret", "reset", Game, 1)

C3_ResetRestoresInitialState ==
    ResetReturned =>
        /\ player.x = initialSquarePosition[1]
        /\ player.y = initialSquarePosition[2]
        /\ NoneStopped
        /\ \A e \in Enemies : enemies[e].x = 0 - 101
        /\ ~field.drawWin /\ ~field.drawLose

C3_Witness == ResetReturned /\ initialSquarePosition = ShippedStart

(***************************************************************************)
(* C4: a moveUp that takes an unstopped player from row 1 to row 0         *)
(* publishes WIN exactly once, with the player as source; the publish and  *)
(* the STOP publish it causes have returned, with everything stopped,      *)
(* before moveUp returns, and the player's square does not change while    *)
(* moveUp is in progress.                                                  *)
(***************************************************************************)
WinPubs == Published(trace, "win")
MoveUpInProgress == \E d \in 1..Len(stack) : stack[d].k = "moveUp"

C4_State ==
    /\ Cardinality(WinPubs) <= 1
    /\ \A j \in WinPubs : trace[j][3] = PlayerNode /\ TaskIs("up")
    /\ MoveUpInProgress => WinPubs # {}
    /\ \A r \in Indices :
          (trace[r] = Entry("return", "moveUp", PlayerNode, 0) /\ WinPubs # {})
          => /\ AllStopped
             /\ \E j \in WinPubs : \E q \in Indices :
                   /\ j < q /\ q < r
                   /\ trace[q] = Entry("ret", "win", PlayerNode, trace[j][4])
                   /\ \E p \in StopPubs : j < p /\ StopCompleted(p, q)

C4_Step ==
    /\ (Idle /\ trace' # <<>> /\ trace'[1] = Entry("task", "up", 0, 0)
            /\ ~player.stopped /\ player.y = 1)
       => /\ player'.y = 0
          /\ Cardinality(Published(trace', "win")) = 1
          /\ stack' # <<>>
    /\ MoveUpInProgress => (player'.x = player.x /\ player'.y = player.y)

C4_MoveUpPublishesWinBeforeReturning == [](C4_State) /\ [][C4_Step]_vars

C4_Witness ==
    /\ stack = <<>>
    /\ WinPubs # {}
    /\ trace[Len(trace)] = Entry("return", "moveUp", PlayerNode, 0)
    /\ initialSquarePosition = ShippedStart

(***************************************************************************)
(* C5: the step of the player's draw that follows its image load publishes *)
(* LOSE, with the player as source, when the player is not stopped and its *)
(* boundary (with the player's thresholds) collides with another child of  *)
(* the field, and publishes nothing otherwise; no draw publishes WIN.      *)
(***************************************************************************)
PlayerCollides ==
    \E e \in Enemies :
        checkCollision(
            GameElementBoundaries(PlayerPosition(player), PlayerSize,
                                  PlayerThresholds),
            GameElementBoundaries(EnemyPosition(enemies[e]), EnemySize,
                                  NoThresholds))

C5_Step ==
    (Body(PlayerNode) /\ stack' # stack)
    => IF ~player.stopped /\ PlayerCollides
       THEN trace' = Append(trace, Entry("pub", "lose", PlayerNode, NextId(trace)))
       ELSE trace' = trace

C5_State ==
    (trace # <<>> /\ trace[1][2] \in {"frame", "load"})
    => /\ WinPubs = {}
       /\ \A j \in Published(trace, "lose") : trace[j][3] = PlayerNode

C5_DrawPublishesLoseOnCollision == [](C5_State) /\ [][C5_Step]_vars

C5_Witness ==
    \E j \in Indices : trace[j] = Entry("pub", "lose", PlayerNode, 1)

(***************************************************************************)
(* C6: with the same threshold t on all four sides, checkCollision is      *)
(* false when the two rectangles overlap by exactly t pixels on one axis   *)
(* (and by more on the other) and true when they overlap by at least       *)
(* t + 1 pixels on both.                                                   *)
(***************************************************************************)
Abs(v) == IF v < 0 THEN 0 - v ELSE v
OverlapX == PlayerSize[1] - Abs(otherOffset[1])
OverlapY == PlayerSize[2] - Abs(otherOffset[2])
UniformThreshold(t) ==
    thresholds = [leftThreshold |-> t, rightThreshold |-> t,
                  topThreshold |-> t, bottomThreshold |-> t]

C6_ThresholdIsExclusive ==
    \A t \in ThresholdValues :
        (collision # "unchecked" /\ UniformThreshold(t))
        => /\ ( \/ (OverlapX = t /\ OverlapY > t)
                \/ (OverlapY = t /\ OverlapX > t) ) => collision = "no"
           /\ (OverlapX >= t + 1 /\ OverlapY >= t + 1) => collision = "yes"

(***************************************************************************)
(* C7: emitEvent calls the observers of the event in registration order,   *)
(* each one after the one before it has returned, every publish that one   *)
(* awaited included, and returns after the last has returned.              *)
(***************************************************************************)
BeginsOf(id) == {j \in Indices : trace[j][1] = "begin" /\ trace[j][4] = id}

\* the observer begun at j0 has returned before j, its publishes too
HandlerDone(j0, j) ==
    \E e \in Indices :
        /\ j0 < e /\ e < j
        /\ trace[e] = Entry("end", trace[j0][2], trace[j0][3], trace[j0][4])
        /\ \A p \in Indices :
              (j0 < p /\ p < e /\ trace[p][1] = "pub")
              => \E r \in Indices :
                    /\ p < r /\ r < e
                    /\ trace[r] = Entry("ret", trace[p][2], trace[p][3], trace[p][4])

C7_EmitIsSequential ==
    \A p \in Indices :
        trace[p][1] = "pub"
        => LET obs == Observers(trace[p][2])
               B == BeginsOf(trace[p][4])
               ret == Entry("ret", trace[p][2], trace[p][3], trace[p][4])
           IN  /\ Cardinality(B) <= Len(obs)
               /\ \A j \in B :
                     /\ p < j
                     /\ trace[j][2] = trace[p][2]
                     /\ trace[j][3] = obs[Cardinality({j2 \in B : j2 <= j})]
                     /\ \A j0 \in B : j0 < j => HandlerDone(j0, j)
               /\ \A r \in Indices :
                     trace[r] = ret
                     => /\ p < r
                        /\ Cardinality(B) = Len(obs)
                        /\ \A j0 \in B : HandlerDone(j0, r)
               /\ stack = <<>> => \E r \in Indices : trace[r] = ret

C7_Witness ==
    /\ stack = <<>>
    /\ \E j \in Indices : trace[j] = Entry("ret", "lose", PlayerNode, 1)
    /\ \E j \in Indices : trace[j] = Entry("ret", "stop", Game, 2)

(***************************************************************************)
(* C8: a round goes active, frozen, active: the player's stopped flag is   *)
(* set by a STOP delivery and cleared by a RESET delivery only, and every  *)
(* WIN or LOSE publish and every state with a stopped element, if the      *)
(* clock of the model can still reach the timeout, is followed by a RESET  *)
(* publish that returns with neither the player nor any enemy stopped.     *)
(***************************************************************************)
AnyStopped == player.stopped \/ \E e \in Enemies : enemies[e].stopped
TimeoutInReach == now + SleepMs <= MaxTime

C8_Step ==
    (player'.stopped # player.stopped)
    => /\ Running
       /\ Top.k = "emit"
       /\ Top.ev = IF player.stopped THEN "reset" ELSE "stop"

C8_FrozenRoundEnds ==
    /\ [][C8_Step]_vars
    /\ ((OutcomePubs # {} \/ AnyStopped) /\ TimeoutInReach)
          ~> (ResetReturned /\ NoneStopped)

C8_Witness ==
    /\ ResetReturned
    /\ NoneStopped
    /\ now > SleepMs

(***************************************************************************)
(* C9: while the player is stopped, a directional key is a no-op: the      *)
(* player is unchanged and nothing is published.                           *)
(***************************************************************************)
KeyTask(tr) ==
    tr # <<>> /\ tr[1][1] = "task" /\ tr[1][2] \in {"up", "down", "left", "right"}
KeyPress == Idle /\ KeyTask(trace')
NoPubs(tr) == \A j \in 1..Len(tr) : tr[j][1] # "pub"

C9_Step ==
    (KeyPress /\ player.stopped)
    => (player' = player /\ NoPubs(trace') /\ stack' = <<>>)

C9_KeysAreNoOpsWhileStopped == [][C9_Step]_vars

C9_Witness ==
    /\ stack = <<>>
    /\ KeyTask(trace)
    /\ NoPubs(trace)
    /\ player.stopped

(***************************************************************************)
(* C10: for a player that is not stopped, a key that would take it off     *)
(* the 5x6 grid is a no-op: the player is unchanged and nothing is         *)
(* published.                                                              *)
(***************************************************************************)
LeavesGrid(name, p) ==
    \/ name = "left" /\ p.x = 0
    \/ name = "right" /\ p.x = 4
    \/ name = "up" /\ p.y = 0
    \/ name = "down" /\ p.y = 5

C10_Step ==
    (KeyPress /\ ~player.stopped /\ LeavesGrid(trace'[1][2], player))
    => (player' = player /\ NoPubs(trace') /\ stack' = <<>>)

C11_PlayerOnGrid == player.x \in 0..4 /\ player.y \in 0..5

\* the right key on the last column, in a round after a RESET
C11_Witness ==
    /\ TaskIs("right")
    /\ player.x = 4
    /\ \E e \in Enemies : unfrozenAt[e] >= 0

(***************************************************************************)
(* C12: an update of an enemy that is not stopped, N seconds after its     *)
(* last update, sets x to x + increase * N, and to -101 instead exactly    *)
(* when that sum is greater than 505: a sum of 505 stays.                  *)
(***************************************************************************)
C12_Step ==
    \A e \in Enemies :
        (UpdateEnemy(e) /\ ~enemies[e].stopped)
        => LET ms == now - enemies[e].lastUpdate
               sum == enemies[e].x + (enemies[e].increase * ms) \div 1000
           IN  /\ sum > 505 => enemies'[e].x = 0 - 101
               /\ sum <= 505 => enemies'[e].x = sum

C12_UpdateAddsSpeedTimesSecondsOrWraps == [][C12_Step]_vars

\* one enemy has come to exactly 505 and stays, another has gone past it
C12_Witness ==
    /\ \E e \in Enemies :
          /\ enemies[e].x = 505
          /\ enemies[e].lastUpdate = now
          /\ unfrozenAt[e] < 0
    /\ \E e \in Enemies :
          /\ enemies[e].increase = 607
          /\ enemies[e].x = 0 - 101
          /\ enemies[e].lastUpdate > 0
          /\ unfrozenAt[e] < 0

(***************************************************************************)
(* C13: the draw of a stopped enemy changes neither its x nor its          *)
(* lastUpdate.                                                             *)
(***************************************************************************)
C13_Step ==
    \A e \in Enemies :
        (EnemyUpdates(e) /\ enemies[e].stopped)
        => /\ enemies'[e].x = enemies[e].x
           /\ enemies'[e].lastUpdate = enemies[e].lastUpdate

C13_StoppedDrawKeepsPositionAndClock == [][C13_Step]_vars

\* a stopped enemy has been drawn later than its last update
C13_Witness ==
    \E e \in Enemies :
        /\ enemies[e].stopped
        /\ \E j \in 1..Len(drawn) : drawn[j] = EnemyNode(e)
        /\ enemies[e].lastUpdate < now

(***************************************************************************)
(* C14: the x of an enemy whose increase is not negative is always in      *)
(* -101..505.                                                              *)
(***************************************************************************)
C14_EnemyStaysInLane ==
    \A e \in Enemies :
        enemies[e].increase >= 0
        => (enemies[e].x >= 0 - 101 /\ enemies[e].x <= 505)

\* an enemy that was stopped and reset has moved on close to the right edge
C14_Witness ==
    \E e \in Enemies :
        /\ unfrozenAt[e] >= 0
        /\ enemies[e].lastUpdate > unfrozenAt[e]
        /\ enemies[e].x > 404

(***************************************************************************)
(* C15: from the STOP that stopped it to the RESET that follows, the       *)
(* player keeps its column and row and every enemy its x, whatever frames  *)
(* are drawn and keys pressed meanwhile; and frames go on being drawn: an  *)
(* animation frame can start whenever the event loop is free.              *)
(***************************************************************************)
ResetDelivery == Running /\ Top.k = "emit" /\ Top.ev = "reset"

C15_Step ==
    ~ResetDelivery
    => /\ player.stopped => (player'.x = player.x /\ player'.y = player.y)
       /\ \A e \in Enemies :
             enemies[e].stopped => enemies'[e].x = enemies[e].x

C15_State ==
    (Idle /\ AnyStopped /\ Cardinality(suspended) < MaxPending)
    => ENABLED AnimationFrame

C15_StoppedElementsStayPut == [](C15_State) /\ [][C15_Step]_vars

\* a whole draw pass has run with everything stopped and the clock moved on
C15_Witness ==
    /\ AllStopped
    /\ stack = <<>>
    /\ TaskIs("frame")
    /\ Len(drawn) = NumEnemies + 2
    /\ \A e \in Enemies : enemies[e].lastUpdate < now

(***************************************************************************)
(* C16: a draw pass goes through the tree depth-first in pre-order: the    *)
(* field's drawItself has completed, also when it waited for an image,     *)
(* before any child starts to draw, and the children draw one after the    *)
(* other in insertion order: the player, then the enemies as constructed.  *)
(***************************************************************************)
PreOrder == << FieldNode, PlayerNode >> \o [e \in 1..NumEnemies |-> e + 1]
Position(n) == CHOOSE j \in 1..Len(PreOrder) : PreOrder[j] = n

\* the pass with call stack stk that has painted the elements of done
InPreOrder(stk, done) ==
    /\ Len(done) <= Len(PreOrder)
    /\ \A j \in 1..Len(done) : done[j] = PreOrder[j]
    /\ \A d \in 1..Len(stk) :
          /\ stk[d].k = "drawItself" => Len(done) = Position(stk[d].n) - 1
          /\ (stk[d].k = "draw" /\ stk[d].i = 0)
                => Len(done) = Position(stk[d].n) - 1
          /\ (stk[d].k = "draw" /\ stk[d].n # FieldNode)
                => Len(done) \in {Position(stk[d].n) - 1, Position(stk[d].n)}
          /\ (stk[d].k = "draw" /\ stk[d].n = FieldNode /\ d = Len(stk))
                => Len(done) = stk[d].i

C16_DrawIsPreOrder ==
    /\ InPreOrder(stack, drawn)
    /\ \A s \in suspended : InPreOrder(s.stack, s.drawn)
    /\ (stack = <<>> /\ trace # <<>> /\ trace[1][2] \in {"frame", "load"}
          /\ \A s \in suspended : s.drawn # drawn)
       => drawn = PreOrder

\* a pass that waited for an image of the field and for one of a child has
\* painted the whole tree
C16_Witness ==
    /\ stack = <<>>
    /\ TaskIs("load")
    /\ drawn = PreOrder
    /\ imageCache[EnemyBug] = 1

(***************************************************************************)
(* C17: loadImage calls for the same url that are under way together end   *)
(* with one image: the calls carry the same Image, and a call that is      *)
(* still waiting when the url is in the cache carries the cached Image.    *)
(***************************************************************************)
C17_ConcurrentLoadsShareOneImage ==
    \A s1 \in suspended :
        /\ \A s2 \in suspended : s1.url = s2.url => s1.img = s2.img
        /\ imageCache[s1.url] # 0 => imageCache[s1.url] = s1.img

(***************************************************************************)
(* C18: a draw pass that waits for an image stalls only the element that   *)
(* asked for it: as long as the image has not arrived, every other element *)
(* of the tree has been painted by that pass.                              *)
(***************************************************************************)
Waiting(s) == s.stack[Len(s.stack)].n

C18_OnlyTheWaitingElementStalls ==
    \A s \in suspended :
        \A j \in 1..Len(PreOrder) :
            PreOrder[j] # Waiting(s)
            => \E k \in 1..Len(s.drawn) : s.drawn[k] = PreOrder[j]

(***************************************************************************)
(* C19: registering an observer that the event already has changes         *)
(* nothing, registering a new one puts it last; so the event never has an  *)
(* observer twice, and an emit calls each observer once, in the order of   *)
(* the first registrations.                                                *)
(***************************************************************************)
ObserversAfter(ev) == IF ev \in DOMAIN events' THEN events'[ev] ELSE <<>>
Has(obs, h) == \E j \in 1..Len(obs) : obs[j] = h

C19_Step ==
    \A ev \in EventNames, h \in Handlers :
        ObserveCall(ev, h)
        => /\ Has(Observers(ev), h) => ObserversAfter(ev) = Observers(ev)
           /\ ~Has(Observers(ev), h)
                 => ObserversAfter(ev) = Append(Observers(ev), h)
           /\ \A other \in EventNames \ {ev} :
                 ObserversAfter(other) = Observers(other)

C19_State ==
    /\ \A ev \in DOMAIN events : \A a, b \in 1..Len(events[ev]) :
          events[ev][a] = events[ev][b] => a = b
    /\ \A p \in Indices :
          trace[p][1] = "pub"
          => LET obs == Observers(trace[p][2])
                 B == BeginsOf(trace[p][4])
             IN  /\ \A j \in B :
                       trace[j][3] = obs[Cardinality({j2 \in B : j2 <= j})]
                 /\ (stack = <<>>) => Cardinality(B) = Len(obs)

C19_ObserveEventIsIdempotent == [](C19_State) /\ [][C19_Step]_vars

\* an observer that was first of two has just been registered again
C19_Witness ==
    \E ev \in EventNames, h \in Handlers :
        /\ TaskIs("observe")
        /\ trace[2] = Entry("observe", ev, h, 2)
        /\ events[ev][1] = h
        /\ Len(events[ev]) = 2

(***************************************************************************)
(* C20: emitting an event that has no observer calls no observer and       *)
(* changes nothing: emitEvent returns at once.                             *)
(***************************************************************************)
NoObserver(ev) == ev \notin DOMAIN events \/ events[ev] = <<>>

C20_Step ==
    (Running /\ Top.k = "emit" /\ NoObserver(Top.ev))
    => /\ stack' = Pop(stack)
       /\ trace' = Append(trace, Entry("ret", Top.ev, Top.n, Top.id))
       /\ UNCHANGED << events, player, enemies, field, timers, imageCache >>

C20_State ==
    \A p \in Indices :
        (trace[p][1] = "pub" /\ NoObserver(trace[p][2]))
        => BeginsOf(trace[p][4]) = {}

C20_EmitWithoutObserversIsNoOp == [](C20_State) /\ [][C20_Step]_vars

\* WIN was emitted and has returned while only other events have observers
C20_Witness ==
    /\ trace = Task("emit") \o << Entry("pub", "win", Game, 1),
                                  Entry("ret", "win", Game, 1) >>
    /\ "win" \notin DOMAIN events
    /\ "lose" \in DOMAIN events

(***************************************************************************)
(* C21: RESET is idempotent: its observers applied twice leave what they   *)
(* leave applied once, and applied to the state of a new game (the player  *)
(* on its first square, nothing stopped, every enemy at -101, no overlay)  *)
(* they change nothing.                                                    *)
(***************************************************************************)
Elements(p, ens, f) == [player |-> p, enemies |-> ens, field |-> f]

\* RESET delivered to every observer of the elements el
AfterReset(el) ==
    Elements(PlayerObserver(el.player, "reset", "", initialSquarePosition),
             [e \in Enemies |-> EnemyObserver(el.enemies[e], "reset")],
             FieldObserver(el.field, "reset"))

Current == Elements(player, enemies, field)

AsBuilt ==
    /\ player.x = initialSquarePosition[1]
    /\ player.y = initialSquarePosition[2]
    /\ NoneStopped
    /\ \A e \in Enemies : enemies[e].x = 0 - 101
    /\ ~field.drawWin /\ ~field.drawLose

C21_ResetIsIdempotent ==
    /\ AfterReset(AfterReset(Current)) = AfterReset(Current)
    /\ AsBuilt => AfterReset(Current) = Current
    /\ ResetReturned => AfterReset(Current) = Current

\* a RESET has just been delivered to everything, in a game where the clock
\* has moved on since the enemies were last drawn
C21_Witness ==
    /\ ResetReturned
    /\ AsBuilt
    /\ \A e \in Enemies : enemies[e].lastUpdate < now /\ unfrozenAt[e] = now

(***************************************************************************)
(* C22: with all four thresholds 0, two boundaries of the same position    *)
(* and size collide.                                                       *)
(***************************************************************************)
C22_SameRectangleCollides ==
    (collision # "unchecked" /\ thresholds = NoThresholds
        /\ otherOffset = <<0, 0>> /\ EnemySize = PlayerSize)
    => collision = "yes"

C22_Witness ==
    /\ collision = "yes"
    /\ thresholds = NoThresholds
    /\ otherOffset = <<0, 0>>
    /\ SelfBoundary.topLeft = OtherBoundary.topLeft
    /\ SelfBoundary.bottomRight = OtherBoundary.bottomRight

(***************************************************************************)
(* C23: enemies do not interact: the draw of an enemy publishes nothing,   *)
(* changes no other enemy and moves the enemy by its own increase and      *)
(* clock only, also when it overlaps another enemy of its row; and the     *)
(* stopped flag of an enemy changes only when STOP or RESET is delivered.  *)
(***************************************************************************)
EnemiesOverlap(a, b) ==
    /\ a # b
    /\ enemies[a].row = enemies[b].row
    /\ enemies[a].x - enemies[b].x < 101
    /\ enemies[b].x - enemies[a].x < 101

C23_Step ==
    \A e \in Enemies :
        /\ EnemyUpdates(e)
           => /\ trace' = trace
              /\ \A o \in Enemies \ {e} : enemies'[o] = enemies[o]
              /\ enemies'[e].stopped = enemies[e].stopped
              /\ LET ms == now - enemies[e].lastUpdate
                     sum == enemies[e].x + (enemies[e].increase * ms) \div 1000
                 IN  enemies'[e].x = IF enemies[e].stopped THEN enemies[e].x
                                     ELSE IF sum > 505 THEN 0 - 101 ELSE sum
        /\ enemies'[e].stopped # enemies[e].stopped
           => (Running /\ Top.k = "emit" /\ Top.ev \in {"stop", "reset"})

C23_EnemiesDoNotInteract == [][C23_Step]_vars

\* two enemies of one row overlap at different x, both were drawn in a pass
\* that published nothing, and nothing is stopped
C23_Witness ==
    /\ stack = <<>>
    /\ TaskIs("frame")
    /\ NoPubs(trace)
    /\ NoneStopped
    /\ Len(drawn) = NumEnemies + 2
    /\ \E a, b \in Enemies :
          /\ EnemiesOverlap(a, b)
          /\ enemies[a].x # enemies[b].x
          /\ enemies[a].lastUpdate = now
          /\ enemies[b].lastUpdate = now

(***************************************************************************)
(* C24: the field shows the win overlay from the delivery of WIN, the lose *)
(* overlay from the delivery of LOSE and none from the delivery of RESET;  *)
(* nothing else changes its flags, and the field publishes no event.       *)
(***************************************************************************)
DeliveryTo(n) ==
    /\ Running
    /\ Top.k = "emit"
    /\ Top.i <= Len(Observers(Top.ev))
    /\ Observers(Top.ev)[Top.i] = n

C24_Step ==
    IF DeliveryTo(FieldNode)
    THEN Outcome(field') = CASE Top.ev = "win" -> "win"
                             [] Top.ev = "lose" -> "lose"
                             [] Top.ev = "reset" -> "none"
                             [] OTHER -> Outcome(field)
    ELSE field' = field

C24_State ==
    /\ \A j \in Indices : trace[j][1] = "pub" => trace[j][3] # FieldNode
    /\ \A d \in 1..Len(stack) : stack[d].k = "emit" => stack[d].n # FieldNode

C24_FieldFollowsOutcomeEvents == [](C24_State) /\ [][C24_Step]_vars

\* LOSE has been delivered to the field in a draw pass that painted the field
C24_Witness ==
    /\ Outcome(field) = "lose"
    /\ \E j \in Indices : trace[j] = Entry("end", "lose", FieldNode, 1)
    /\ Len(drawn) >= 1

(***************************************************************************)
(* C25: the field never has drawWin and drawLose both true.                *)
(***************************************************************************)
C25_OneOutcome == ~(field.drawWin /\ field.drawLose)

\* the lose overlay is up in a round that follows a RESET
C25_Witness ==
    /\ field.drawLose
    /\ ~field.drawWin
    /\ \E e \in Enemies : unfrozenAt[e] >= 0

(***************************************************************************)
(* C26: loadImage is memoized by url: once a url is in the cache, every    *)
(* later loadImage of it returns that one image, so the cached image does  *)
(* not change any more, and no new load of the url is started.             *)
(***************************************************************************)
C26_Step ==
    \A u \in Urls :
        imageCache[u] # 0
        => /\ imageCache'[u] = imageCache[u]
           /\ \A s \in suspended' \ suspended : s.url # u

C26_LoadImageIsMemoized == [][C26_Step]_vars

(***************************************************************************)
(* C27: checkCollision(A, B) is true exactly when one of the four corner   *)
(* tests passes, where the bottom-left test compares B's left and right    *)
(* edge with A's left edge under A's leftThreshold (not rightThreshold)    *)
(* and B's top and bottom edge with A's bottom edge under A's              *)
(* bottomThreshold. The tests are written out on the edges of the two      *)
(* rectangles.                                                             *)
(***************************************************************************)
ALeft == SelfBoundary.topLeft[1]
ARight == SelfBoundary.topRight[1]
ATop == SelfBoundary.topLeft[2]
ABottom == SelfBoundary.bottomLeft[2]
BLeft == OtherBoundary.topLeft[1]
BRight == OtherBoundary.topRight[1]
BTop == OtherBoundary.topLeft[2]
BBottom == OtherBoundary.bottomLeft[2]

AcrossRightEdge == BLeft + thresholds.rightThreshold <= ARight /\ BRight >= ARight
AcrossLeftEdge == BLeft <= ALeft /\ BRight - thresholds.leftThreshold >= ALeft
AcrossTopEdge == BTop <= ATop /\ BBottom - thresholds.topThreshold >= ATop
AcrossBottomEdge == BTop + thresholds.bottomThreshold <= ABottom /\ BBottom >= ABottom

TopRightTest == AcrossRightEdge /\ AcrossTopEdge
TopLeftTest == AcrossLeftEdge /\ AcrossTopEdge
BottomRightTest == AcrossRightEdge /\ AcrossBottomEdge
BottomLeftTest == AcrossLeftEdge /\ AcrossBottomEdge

C27_CollisionIsAnyCornerTest ==
    collision # "unchecked"
    => (collision = "yes"
        <=> (TopRightTest \/ TopLeftTest \/ BottomRightTest \/ BottomLeftTest))

\* the left and right thresholds differ and only the bottom-left test passes;
\* with rightThreshold in place of leftThreshold it would fail
C27_Witness ==
    /\ collision = "yes"
    /\ thresholds.leftThreshold < thresholds.rightThreshold
    /\ BottomLeftTest
    /\ ~TopRightTest /\ ~TopLeftTest /\ ~BottomRightTest
    /\ BRight - thresholds.rightThreshold < ALeft

(***************************************************************************)
(* C28: every Player.drawItself draws the sprite exactly once: it returns  *)
(* by drawing it, and no draw pass holds it twice.  When the drawItself    *)
(* published LOSE, the sprite is drawn after that publish has returned,    *)
(* the STOP it caused has been delivered to every observer and has         *)
(* returned too, so that all elements are stopped.                         *)
(***************************************************************************)
SpritesDrawn(d) == Cardinality({j \in 1..Len(d) : d[j] = PlayerNode})

PlayerDrawItselfReturns ==
    /\ Running
    /\ Top.k = "drawItself"
    /\ Top.n = PlayerNode
    /\ stack' = Pop(stack)

LoseCompleted ==
    \A p \in Published(trace, "lose") :
        \E r \in Indices :
            /\ p < r
            /\ trace[r] = Entry("ret", "lose", PlayerNode, trace[p][4])
            /\ \E q \in StopPubs : p < q /\ StopCompleted(q, r)

C28_Step ==
    /\ PlayerDrawItselfReturns
       => /\ drawn' = Append(drawn, PlayerNode)
          /\ LoseCompleted
          /\ Published(trace, "lose") # {} => AllStopped
    /\ (Running /\ SpritesDrawn(drawn') > SpritesDrawn(drawn))
       => PlayerDrawItselfReturns

C28_State ==
    /\ SpritesDrawn(drawn) <= 1
    /\ \A s \in suspended : SpritesDrawn(s.drawn) <= 1

C28_SpriteDrawnOnceAfterLose == []C28_State /\ [][C28_Step]_vars

C28_Witness ==
    /\ Published(trace, "lose") # {}
    /\ LoseCompleted
    /\ SpritesDrawn(drawn) = 1
    /\ AllStopped

(***************************************************************************)
(* C29: between two deliveries of RESET at most one outcome is published.  *)
(* An outcome (WIN or LOSE) is published only in a fresh round: no RESET   *)
(* timer pending, no other outcome published in the task, nothing stopped  *)
(* and no overlay set; so at any time at most one RESET timer is pending.  *)
(* Key presses, draw passes and image loads interleave freely.             *)
(***************************************************************************)
OutcomePublished == Cardinality(OutcomePubs') > Cardinality(OutcomePubs)

C29_Step ==
    OutcomePublished
    => /\ timers = <<>>
       /\ OutcomePubs = {}
       /\ NoneStopped
       /\ ~field.drawWin /\ ~field.drawLose

C29_State ==
    /\ Len(timers) <= 1
    /\ Cardinality(OutcomePubs) <= 1
    /\ Cardinality(TimerEntries) <= 1

C29_OneOutcomePerRound == []C29_State /\ [][C29_Step]_vars

\* an outcome of a later round, its RESET timer pending, while a draw pass
\* is still waiting for an image
C29_Witness ==
    /\ OutcomePubs # {}
    /\ Len(timers) = 1
    /\ suspended # {}
    /\ \E e \in Enemies : unfrozenAt[e] >= 0

(***************************************************************************)
(* C30: whenever no emitEvent is in progress, the stopped flags of the     *)
(* Player and of all Enemies are equal, and they are true exactly when the *)
(* Field shows an outcome (win or lose): the overlay is shown if and only  *)
(* if the game is frozen.                                                  *)
(***************************************************************************)
Publishing == \E d \in 1..Len(stack) : stack[d].k = "emit"

C30_FrozenIffOverlay ==
    ~Publishing
    => /\ AllStopped \/ NoneStopped
       /\ AllStopped <=> Outcome(field) # "none"

\* frozen with the green overlay set, inside a draw pass
C30_Witness ==
    /\ ~Publishing
    /\ AllStopped
    /\ Outcome(field) = "win"
    /\ Running
    /\ Top.k = "drawItself"

(***************************************************************************)
(* C31: with the shipped start square (column 2, row 5), whenever no       *)
(* emitEvent is in progress a player on row 0 is stopped.  So no key is    *)
(* ever handled while the player stands on row 0 and is not stopped, and   *)
(* every WIN is published by the step that takes the player from row 1 to  *)
(* row 0, never by one that starts on row 0.                               *)
(***************************************************************************)
WinPublished == Cardinality(Published(trace', "win")) > Cardinality(WinPubs)

C31_State == (~Publishing /\ player.y = 0) => player.stopped

C31_Step ==
    /\ KeyPress => (player.y = 0 => player.stopped)
    /\ WinPublished => (player.y = 1 /\ player'.y = 0)

C31_GoalRowIsFrozen == []C31_State /\ [][C31_Step]_vars

\* the up key pressed on row 0: the player is stopped and nothing is published
C31_Witness ==
    /\ TaskIs("up")
    /\ NoPubs(trace)
    /\ player.y = 0
    /\ player.stopped
    /\ ~Publishing

(***************************************************************************)
(* C32: with the thresholds of the player (left 22, right 22, top 9,       *)
(* bottom 30) and elements of 101 x 83, the player never collides with an  *)
(* enemy of another row: wherever the player and the enemies stand         *)
(* horizontally, on no row 0..5 does collisionDetection hold against       *)
(* enemies put on another row 1..3; and LOSE is published only             *)
(* while the row of the player is the row of some enemy, never on row 0,   *)
(* 4 or 5.                                                                 *)
(***************************************************************************)
PlayerRows == 0..5
EnemyRows == 1..3

OnRow(p, r) == [p EXCEPT !.y = r]
AllOnRow(ens, r) == [e \in Enemies |-> [ens[e] EXCEPT !.row = r]]

LosePublished ==
    Cardinality(Published(trace', "lose")) > Cardinality(Published(trace, "lose"))

C32_State ==
    \A r \in PlayerRows : \A er \in EnemyRows \ {r} :
        ~collisionDetection(OnRow(player, r), AllOnRow(enemies, er))

C32_Step ==
    LosePublished
    => /\ \E e \in Enemies : enemies[e].row = player.y
       /\ player.y \in EnemyRows

C32_NoCollisionAcrossRows == []C32_State /\ [][C32_Step]_vars

\* LOSE published on the row of an enemy while an enemy of the next row is
\* on the canvas
C32_Witness ==
    /\ Published(trace, "lose") # {}
    /\ \E e \in Enemies : enemies[e].row = player.y
    /\ \E e \in Enemies :
          /\ enemies[e].row \in {player.y - 1, player.y + 1}
          /\ enemies[e].x + 101 > 0

====
